---- MODULE Spec2Model ----
(***************************************************************************)
(* Model of config/src/network_id.rs: the NetworkId enumeration with its   *)
(* backwards-compatible serde codec, the upstream/downstream role tables,  *)
(* textual parsing, UpstreamConfig, PeerNetworkId and NetworkContext.      *)
(*                                                                         *)
(* Every operation of the file is a pure function of its inputs.  A        *)
(* behaviour is one request: Init draws the request (the operation and its *)
(* inputs) and the actions carry it out; a codec request first puts a      *)
(* document on the wire, which the current decoder and a legacy decoder    *)
(* then read.                                                              *)
(*                                                                         *)
(* A Rust string is modelled as the sequence of its Unicode code points,   *)
(* a byte string as a sequence of numbers in 0..255.                       *)
(***************************************************************************)
EXTENDS Integers, Sequences, FiniteSets, TLC

VARIABLES req, pc, wire, decoded, old_decoded, ret

vars == <<req, pc, wire, decoded, old_decoded, ret>>

(***************************************************************************)
(* Bounds of the model.                                                    *)
(***************************************************************************)
\* longest UpstreamConfig.networks list that is drawn
MaxNetworks == 3
\* peer identifiers are 0 .. MaxPeer
MaxPeer == 2

(***************************************************************************)
(* String literals of the source, as code points.                          *)
(***************************************************************************)
\* "Validator"
Str_Validator == <<86, 97, 108, 105, 100, 97, 116, 111, 114>>
\* "Public"
Str_Public == <<80, 117, 98, 108, 105, 99>>
\* "Private"
Str_Private == <<80, 114, 105, 118, 97, 116, 101>>
\* "Vfn"
Str_Vfn == <<86, 102, 110>>
\* "NewPublic"
Str_NewPublic == <<78, 101, 119, 80, 117, 98, 108, 105, 99>>
\* "validator"
Str_validator == <<118, 97, 108, 105, 100, 97, 116, 111, 114>>
\* "public"
Str_public == <<112, 117, 98, 108, 105, 99>>
\* const VFN_NETWORK: &str = "vfn"
VFN_NETWORK == <<118, 102, 110>>
\* "role"
Str_role == <<114, 111, 108, 101>>
\* "network_id"
Str_network_id == <<110, 101, 116, 119, 111, 114, 107, 95, 105, 100>>
\* "peer_id"
Str_peer_id == <<112, 101, 101, 114, 95, 105, 100>>

(***************************************************************************)
(* Characters.                                                             *)
(***************************************************************************)
\* char::is_uppercase, on the characters the model draws (ASCII, Latin-1,
\* U+0130 LATIN CAPITAL LETTER I WITH DOT ABOVE, U+212A KELVIN SIGN)
IsUppercase(c) ==
    \/ c \in 65..90
    \/ c \in 192..214
    \/ c \in 216..222
    \/ c = 304
    \/ c = 8490

\* char::to_lowercase: the lowercase mapping of one character, which may be
\* more than one character long
CharToLowercase(c) ==
    IF c \in 65..90 \/ c \in 192..214 \/ c \in 216..222 THEN <<c + 32>>
    ELSE IF c = 304 THEN <<105, 775>>
    ELSE IF c = 8490 THEN <<107>>
    ELSE <<c>>

\* char::to_ascii_lowercase
CharToAsciiLowercase(c) == IF c \in 65..90 THEN c + 32 ELSE c

RECURSIVE to_lowercase(_)
\* str::to_lowercase
to_lowercase(s) ==
    IF s = <<>> THEN <<>>
    ELSE CharToLowercase(Head(s)) \o to_lowercase(Tail(s))

RECURSIVE SnakeCaseFrom(_, _)
SnakeCaseFrom(ident, i) ==
    IF i > Len(ident) THEN <<>>
    ELSE (IF i > 1 /\ IsUppercase(ident[i]) THEN <<95>> ELSE <<>>)
         \o <<CharToAsciiLowercase(ident[i])>>
         \o SnakeCaseFrom(ident, i + 1)

\* serde's rename_all = "snake_case" applied to a variant identifier
SnakeCase(ident) == SnakeCaseFrom(ident, 1)

(***************************************************************************)
(* Bytes: ULEB128 and UTF-8, as the compact binary format uses them.       *)
(***************************************************************************)
RECURSIVE Uleb128(_)
Uleb128(n) ==
    IF n < 128 THEN <<n>>
    ELSE <<128 + (n % 128)>> \o Uleb128(n \div 128)

RECURSIVE ParseUlebAt(_, _, _, _)
\* reads a ULEB128-encoded u32 from b, at byte i, with the value acc so far
\* and the next digit weighing mult.  A number of five bytes (2^28 or more)
\* is more than any variant index and any length a document here holds, so
\* that the decoders fail on it either way; it is reported as a failure.
ParseUlebAt(b, i, mult, acc) ==
    IF i > Len(b) \/ i > 4 THEN [ok |-> FALSE, val |-> 0, rest |-> <<>>]
    ELSE LET digit == b[i] % 128
             sum == acc + digit * mult
         IN IF b[i] >= 128 THEN ParseUlebAt(b, i + 1, mult * 128, sum)
            ELSE IF i > 1 /\ digit = 0
                 THEN [ok |-> FALSE, val |-> 0, rest |-> <<>>]
                 ELSE [ok |-> TRUE, val |-> sum, rest |-> SubSeq(b, i + 1, Len(b))]

ParseUleb(b) == ParseUlebAt(b, 1, 1, 0)

Utf8Char(c) ==
    IF c < 128 THEN <<c>>
    ELSE IF c < 2048 THEN <<192 + (c \div 64), 128 + (c % 64)>>
    ELSE IF c < 65536
         THEN <<224 + (c \div 4096), 128 + ((c \div 64) % 64), 128 + (c % 64)>>
    ELSE <<240 + (c \div 262144), 128 + ((c \div 4096) % 64),
           128 + ((c \div 64) % 64), 128 + (c % 64)>>

RECURSIVE Utf8(_)
\* the UTF-8 bytes of a string
Utf8(s) == IF s = <<>> THEN <<>> ELSE Utf8Char(Head(s)) \o Utf8(Tail(s))

IsCont(b, i) == i <= Len(b) /\ b[i] \in 128..191

RECURSIVE FromUtf8(_)
\* String::from_utf8: the string of a byte sequence, or an error
FromUtf8(b) ==
    IF b = <<>> THEN [ok |-> TRUE, val |-> <<>>]
    ELSE LET b1 == b[1]
             n == IF b1 < 128 THEN 1
                  ELSE IF b1 \in 194..223 THEN 2
                  ELSE IF b1 \in 224..239 THEN 3
                  ELSE IF b1 \in 240..244 THEN 4
                  ELSE 0
             wellFormed == /\ n > 0
                           /\ \A k \in 2..n : IsCont(b, k)
             cp == IF n = 1 THEN b1
                   ELSE IF n = 2 THEN (b1 - 192) * 64 + (b[2] - 128)
                   ELSE IF n = 3
                        THEN (b1 - 224) * 4096 + (b[2] - 128) * 64 + (b[3] - 128)
                   ELSE (b1 - 240) * 262144 + (b[2] - 128) * 4096
                        + (b[3] - 128) * 64 + (b[4] - 128)
         IN IF ~wellFormed THEN [ok |-> FALSE, val |-> <<>>]
            ELSE IF \/ (n = 3 /\ cp < 2048)
                    \/ (n = 4 /\ cp < 65536)
                    \/ cp \in 55296..57343
                    \/ cp > 1114111
                 THEN [ok |-> FALSE, val |-> <<>>]
            ELSE LET more == FromUtf8(SubSeq(b, n + 1, Len(b)))
                 IN IF more.ok THEN [ok |-> TRUE, val |-> <<cp>> \o more.val]
                    ELSE more

(***************************************************************************)
(* Results.                                                                *)
(***************************************************************************)
\* Result<NetworkId, _>: val is a NetworkId when ok
IdOk(id) == [ok |-> TRUE, val |-> id, err |-> ""]
IdErr(e) == [ok |-> FALSE, val |-> "none", err |-> e]

\* a value of one of the tagged-union helper enums: the variant and, for the
\* newtype variant Private(String), its string
Unit(variant) == [variant |-> variant, payload |-> <<>>]
Newtype(variant, s) == [variant |-> variant, payload |-> s]

EnumOk(v) == [ok |-> TRUE, val |-> v, err |-> ""]
EnumErr(e) == [ok |-> FALSE, val |-> Unit("none"), err |-> e]

(***************************************************************************)
(* The two serde formats the tests use.  A structured document (serde_yaml)*)
(* is a tree of nodes: a string scalar, a scalar of another type, or a     *)
(* mapping with ordered entries.  A compact binary document (bcs) is a     *)
(* byte sequence.                                                          *)
(***************************************************************************)
Format == {"yaml", "bcs"}

YStr(s) == [kind |-> "str", s |-> s, entries |-> <<>>]
\* a scalar that is not a string (a number, a value of a foreign type);
\* n stands for its content
YOther(kind, n) == [kind |-> kind, s |-> <<n>>, entries |-> <<>>]
YMap(entries) == [kind |-> "map", s |-> <<>>, entries |-> entries]
Entry(key, val) == [key |-> key, val |-> val]

\* the compact binary encoding of a string: its length, then its bytes
BcsString(s) == LET b == Utf8(s) IN Uleb128(Len(b)) \o b

\* the position (from 1) of the variant called variant in an enum's list of
\* variants, 0 when it has none
VariantPos(variants, variant) ==
    IF \E i \in 1..Len(variants) : variants[i].variant = variant
    THEN CHOOSE i \in 1..Len(variants) : variants[i].variant = variant
    ELSE 0

\* the position (from 1) of the variant whose serialized name is name
NamePos(variants, name) ==
    IF \E i \in 1..Len(variants) : SnakeCase(variants[i].ident) = name
    THEN CHOOSE i \in 1..Len(variants) : SnakeCase(variants[i].ident) = name
    ELSE 0

\* #[derive(Serialize)] of an enum with rename_all = "snake_case":
\* serialize_unit_variant / serialize_newtype_variant with the variant's
\* index and name.  serde_yaml writes the name, bcs the index.
SerializeEnum(fmt, variants, v) ==
    LET i == VariantPos(variants, v.variant)
        name == SnakeCase(variants[i].ident)
    IN IF fmt = "yaml"
       THEN IF variants[i].kind = "unit" THEN YStr(name)
            ELSE YMap(<<Entry(name, YStr(v.payload))>>)
       ELSE Uleb128(i - 1)
            \o (IF variants[i].kind = "unit" THEN <<>> ELSE BcsString(v.payload))

\* #[derive(Deserialize)] of such an enum, from a structured document: a
\* string names a unit variant, a mapping with one entry names a newtype
\* variant and holds its value
YamlDeserializeEnum(variants, node) ==
    IF node.kind = "str"
    THEN LET i == NamePos(variants, node.s)
         IN IF i = 0 THEN EnumErr("unknown variant")
            ELSE IF variants[i].kind = "unit" THEN EnumOk(Unit(variants[i].variant))
            ELSE EnumErr("invalid type: unit variant, expected newtype variant")
    ELSE IF node.kind = "map" /\ Len(node.entries) = 1
    THEN LET i == NamePos(variants, node.entries[1].key)
             val == node.entries[1].val
         IN IF i = 0 THEN EnumErr("unknown variant")
            ELSE IF variants[i].kind = "unit"
                 THEN EnumErr("invalid type: expected unit variant")
            ELSE IF val.kind = "str"
                 THEN EnumOk(Newtype(variants[i].variant, val.s))
            ELSE EnumErr("invalid type: expected a string")
    ELSE EnumErr("invalid type: expected enum")

\* ... and from a compact binary document: the variant's index, then the
\* string of a newtype variant; bcs::from_bytes rejects remaining input
BcsDeserializeEnum(variants, bytes) ==
    LET idx == ParseUleb(bytes)
    IN IF ~idx.ok THEN EnumErr("malformed variant index")
       ELSE IF idx.val >= Len(variants) THEN EnumErr("invalid value: variant index")
       ELSE LET var == variants[idx.val + 1]
            IN IF var.kind = "unit"
               THEN IF idx.rest = <<>> THEN EnumOk(Unit(var.variant))
                    ELSE EnumErr("remaining input")
               ELSE LET len == ParseUleb(idx.rest)
                    IN IF ~len.ok THEN EnumErr("malformed length")
                       ELSE IF Len(len.rest) < len.val THEN EnumErr("unexpected end of input")
                       ELSE IF Len(len.rest) > len.val THEN EnumErr("remaining input")
                       ELSE LET s == FromUtf8(len.rest)
                            IN IF s.ok THEN EnumOk(Newtype(var.variant, s.val))
                               ELSE EnumErr("invalid utf-8")

DeserializeEnum(fmt, variants, doc) ==
    IF fmt = "yaml" THEN YamlDeserializeEnum(variants, doc)
    ELSE BcsDeserializeEnum(variants, doc)

(***************************************************************************)
(* NetworkId and its codec.                                                *)
(***************************************************************************)
\* enum NetworkId { Validator = 0, Vfn = 3, Public = 4 }
NetworkId == {"Validator", "Vfn", "Public"}

\* Discriminant with Vfn declared after Public: a fault that breaks the order
Discriminant_VfnLast(id) ==
    CASE id = "Validator" -> 0
      [] id = "Public" -> 4
      [] id = "Vfn" -> 5

\* the #[repr(u8)] discriminant of a variant
Discriminant(id) ==
    CASE id = "Validator" -> 0
      [] id = "Vfn" -> 3
      [] id = "Public" -> 4

\* enum ConvertNetworkId of impl Serialize for NetworkId
SerConvertNetworkId ==
    << [variant |-> "Validator", ident |-> Str_Validator, kind |-> "unit"],
       [variant |-> "Public", ident |-> Str_Public, kind |-> "unit"],
       [variant |-> "Private", ident |-> Str_Private, kind |-> "newtype"] >>

\* Converted with the tag of Vfn written "Vfn": a fault that legacy decoders
\* would read as another private network
Converted_Capitalised(id) ==
    CASE id = "Validator" -> Unit("Validator")
      [] id = "Public" -> Unit("Public")
      [] id = "Vfn" -> Newtype("Private", Str_Vfn)

\* let converted = match self { ... }
Converted(id) ==
    CASE id = "Validator" -> Unit("Validator")
      [] id = "Public" -> Unit("Public")
      [] id = "Vfn" -> Newtype("Private", VFN_NETWORK)

\* impl Serialize for NetworkId
NetworkId_serialize(id, fmt) ==
    SerializeEnum(fmt, SerConvertNetworkId, Converted(id))

\* DeConvertNetworkId with the migration variants put before Private: a
\* fault that moves the index of Private in the compact binary encoding
DeConvertNetworkId_Reordered ==
    << [variant |-> "Validator", ident |-> Str_Validator, kind |-> "unit"],
       [variant |-> "Public", ident |-> Str_Public, kind |-> "unit"],
       [variant |-> "Vfn", ident |-> Str_Vfn, kind |-> "unit"],
       [variant |-> "NewPublic", ident |-> Str_NewPublic, kind |-> "unit"],
       [variant |-> "Private", ident |-> Str_Private, kind |-> "newtype"] >>

\* enum ConvertNetworkId of impl Deserialize for NetworkId
DeConvertNetworkId ==
    << [variant |-> "Validator", ident |-> Str_Validator, kind |-> "unit"],
       [variant |-> "Public", ident |-> Str_Public, kind |-> "unit"],
       [variant |-> "Private", ident |-> Str_Private, kind |-> "newtype"],
       [variant |-> "Vfn", ident |-> Str_Vfn, kind |-> "unit"],
       [variant |-> "NewPublic", ident |-> Str_NewPublic, kind |-> "unit"] >>

\* FromConverted that rejects a private network other than "vfn": a fault
\* that drops the safe default
FromConverted_Strict(v) ==
    CASE v.variant = "Validator" -> IdOk("Validator")
      [] v.variant = "Public" -> IdOk("Public")
      [] v.variant = "Vfn" -> IdOk("Vfn")
      [] v.variant = "NewPublic" -> IdOk("Public")
      [] v.variant = "Private" ->
            IF v.payload = VFN_NETWORK THEN IdOk("Vfn")
            ELSE IdErr("unknown private network")

\* match ConvertNetworkId::deserialize(deserializer)? { ... }
FromConverted(v) ==
    CASE v.variant = "Validator" -> IdOk("Validator")
      [] v.variant = "Public" -> IdOk("Public")
      [] v.variant = "Vfn" -> IdOk("Vfn")
      [] v.variant = "NewPublic" -> IdOk("Public")
      [] v.variant = "Private" -> IdOk("Vfn")

\* impl Deserialize for NetworkId
NetworkId_deserialize(fmt, doc) ==
    LET r == DeserializeEnum(fmt, DeConvertNetworkId, doc)
    IN IF r.ok THEN FromConverted(r.val) ELSE IdErr(r.err)

\* enum OldNetworkId of the tests: the legacy shape
OldNetworkId ==
    << [variant |-> "Validator", ident |-> Str_Validator, kind |-> "unit"],
       [variant |-> "Public", ident |-> Str_Public, kind |-> "unit"],
       [variant |-> "Private", ident |-> Str_Private, kind |-> "newtype"] >>

\* #[derive(Serialize)] of OldNetworkId
OldNetworkId_serialize(old, fmt) == SerializeEnum(fmt, OldNetworkId, old)

\* #[derive(Deserialize)] of OldNetworkId
OldNetworkId_deserialize(fmt, doc) == DeserializeEnum(fmt, OldNetworkId, doc)

(***************************************************************************)
(* Ordering and equality (#[derive(PartialEq, Eq, PartialOrd, Ord)]).      *)
(***************************************************************************)
\* Ord::cmp of two integers
IntCmp(x, y) == IF x < y THEN "Less" ELSE IF x = y THEN "Equal" ELSE "Greater"

\* the derived Ord of NetworkId compares the discriminants
NetworkId_cmp(a, b) == IntCmp(Discriminant(a), Discriminant(b))

\* the derived PartialEq of NetworkId
NetworkId_eq(a, b) == Discriminant(a) = Discriminant(b)

\* a PeerId is an account address, ordered as the number its bytes spell
PeerId == 0..MaxPeer

PeerId_cmp(p, q) == IntCmp(p, q)

(***************************************************************************)
(* Topology policy.                                                        *)
(***************************************************************************)
RoleType == {"Validator", "FullNode"}

\* upstream_roles with the two directions of the Vfn network exchanged
upstream_roles_Exchanged(id, role) ==
    CASE id = "Validator" -> <<"Validator">>
      [] id = "Public" -> <<"PreferredUpstream", "Upstream", "ValidatorFullNode">>
      [] id = "Vfn" -> CASE role = "Validator" -> <<"Validator">>
                         [] role = "FullNode" -> <<>>

\* NetworkId::upstream_roles
upstream_roles(id, role) ==
    CASE id = "Validator" -> <<"Validator">>
      [] id = "Public" -> <<"PreferredUpstream", "Upstream", "ValidatorFullNode">>
      [] id = "Vfn" -> CASE role = "Validator" -> <<>>
                         [] role = "FullNode" -> <<"Validator">>

\* NetworkId::downstream_roles
downstream_roles(id, role) ==
    CASE id = "Validator" -> <<"Validator">>
      [] id = "Public" -> <<"ValidatorFullNode", "Downstream", "Known", "Unknown">>
      [] id = "Vfn" -> CASE role = "Validator" -> <<"ValidatorFullNode">>
                         [] role = "FullNode" -> <<>>

(***************************************************************************)
(* Text.                                                                   *)
(***************************************************************************)
\* NetworkId::as_str
as_str(id) ==
    CASE id = "Validator" -> Str_Validator
      [] id = "Public" -> Str_Public
      [] id = "Vfn" -> VFN_NETWORK

\* serialize_str that writes the network as NetworkId's own Serialize does:
\* the fault of a NetworkContext without its serialize_with attribute
serialize_str_Tagged(id) == NetworkId_serialize(id, "yaml")

\* NetworkId::serialize_str, to a structured document
serialize_str(id) == YStr(as_str(id))

\* from_str without the conversion to lower case
from_str_CaseSensitive(s) ==
    IF s = Str_validator THEN IdOk("Validator")
    ELSE IF s = Str_public THEN IdOk("Public")
    ELSE IF s = VFN_NETWORK THEN IdOk("Vfn")
    ELSE IdErr("Invalid network name")

\* impl FromStr for NetworkId
from_str(s) ==
    LET lower == to_lowercase(s)
    IN IF lower = Str_validator THEN IdOk("Validator")
       ELSE IF lower = Str_public THEN IdOk("Public")
       ELSE IF lower = VFN_NETWORK THEN IdOk("Vfn")
       ELSE IdErr("Invalid network name")

(***************************************************************************)
(* UpstreamConfig { networks: Vec<NetworkId> }.                            *)
(***************************************************************************)
\* Option<usize>
Some(n) == [some |-> TRUE, val |-> n]
None == [some |-> FALSE, val |-> 0]

RECURSIVE PositionFrom_FromOne(_, _, _)
\* PositionFrom that counts the places from 1: an off-by-one fault
PositionFrom_FromOne(networks, network, i) ==
    IF i > Len(networks) THEN None
    ELSE IF NetworkId_eq(networks[i], network) THEN Some(i)
    ELSE PositionFrom_FromOne(networks, network, i + 1)

RECURSIVE PositionFrom(_, _, _)
PositionFrom(networks, network, i) ==
    IF i > Len(networks) THEN None
    ELSE IF NetworkId_eq(networks[i], network) THEN Some(i - 1)
    ELSE PositionFrom(networks, network, i + 1)

\* self.networks.iter().position(|upstream_network| upstream_network == &network)
Position(networks, network) == PositionFrom(networks, network, 1)

\* get_upstream_preference without the rule for the validator network
get_upstream_preference_ListOnly(networks, network) ==
    Position(networks, network)

\* UpstreamConfig::get_upstream_preference
get_upstream_preference(networks, network) ==
    IF NetworkId_eq(network, "Validator") THEN Some(0)
    ELSE Position(networks, network)

\* upstream_count without its floor of one
upstream_count_NoFloor(networks) == Len(networks)

\* UpstreamConfig::upstream_count
upstream_count(networks) ==
    IF 1 >= Len(networks) THEN 1 ELSE Len(networks)

(***************************************************************************)
(* PeerNetworkId { network_id, peer_id }.                                  *)
(***************************************************************************)
\* PeerNetworkId::new
PeerNetworkId_new(network_id, peer_id) ==
    [network_id |-> network_id, peer_id |-> peer_id]

\* PeerNetworkId::network_id
PeerNetworkId_network_id(self) == self.network_id

\* PeerNetworkId::peer_id
PeerNetworkId_peer_id(self) == self.peer_id

\* the derived PartialEq: every field equal
PeerNetworkId_eq(a, b) ==
    NetworkId_eq(a.network_id, b.network_id) /\ a.peer_id = b.peer_id

\* PeerNetworkId_cmp with peer_id compared first: the fault of the fields
\* declared in the other order
PeerNetworkId_cmp_PeerFirst(a, b) ==
    LET c == PeerId_cmp(a.peer_id, b.peer_id)
    IN IF c # "Equal" THEN c ELSE NetworkId_cmp(a.network_id, b.network_id)

\* the derived Ord: the fields in declaration order
PeerNetworkId_cmp(a, b) ==
    LET c == NetworkId_cmp(a.network_id, b.network_id)
    IN IF c # "Equal" THEN c ELSE PeerId_cmp(a.peer_id, b.peer_id)

(***************************************************************************)
(* NetworkContext { role, network_id, peer_id }.                           *)
(***************************************************************************)
\* the position of a RoleType among its variants; stands for the role as
\* RoleType's own Serialize writes it
RoleOrd(role) == IF role = "Validator" THEN 0 ELSE 1

\* #[derive(Serialize)] of NetworkContext, to a structured document: the
\* fields in declaration order, network_id through NetworkId::serialize_str,
\* role and peer_id through their own types' Serialize
NetworkContext_serialize(role, network_id, peer_id) ==
    YMap(<< Entry(Str_role, YOther("RoleType", RoleOrd(role))),
            Entry(Str_network_id, serialize_str(network_id)),
            Entry(Str_peer_id, YOther("PeerId", peer_id)) >>)

(***************************************************************************)
(* Inputs.                                                                 *)
(***************************************************************************)
\* the strings a legacy peer may carry in Private(_): "vfn", "", "VFN",
\* "anything-else", "validator", and "e-acute" (a two-byte character)
PrivatePayloads ==
    { VFN_NETWORK, <<>>, <<86, 70, 78>>,
      <<97, 110, 121, 116, 104, 105, 110, 103, 45, 101, 108, 115, 101>>,
      Str_validator, <<233>> }

\* the values of the legacy shape
OldValues ==
    {Unit("Validator"), Unit("Public")}
        \cup {Newtype("Private", s) : s \in PrivatePayloads}

\* the values of the shape the current decoder reads
ConvertValues == OldValues \cup {Unit("Vfn"), Unit("NewPublic")}

\* documents that are no encoding of either shape
ForeignDocs ==
    { [fmt |-> "yaml", doc |-> YStr(<<>>)],
      \* vlaidator
      [fmt |-> "yaml", doc |-> YStr(<<118, 108, 97, 105, 100, 97, 116, 111, 114>>)],
      \* Validator (the name before renaming)
      [fmt |-> "yaml", doc |-> YStr(Str_Validator)],
      \* private, without its string
      [fmt |-> "yaml", doc |-> YStr(SnakeCase(Str_Private))],
      \* private: 7
      [fmt |-> "yaml", doc |-> YMap(<<Entry(SnakeCase(Str_Private), YOther("int", 7))>>)],
      \* vfn: vfn
      [fmt |-> "yaml", doc |-> YMap(<<Entry(VFN_NETWORK, YStr(VFN_NETWORK))>>)],
      \* secret: vfn
      [fmt |-> "yaml", doc |-> YMap(<<Entry(<<115, 101, 99, 114, 101, 116>>, YStr(VFN_NETWORK))>>)],
      [fmt |-> "yaml", doc |-> YMap(<<>>)],
      [fmt |-> "bcs", doc |-> <<>>],
      [fmt |-> "bcs", doc |-> <<5>>],
      [fmt |-> "bcs", doc |-> <<0, 0>>],
      [fmt |-> "bcs", doc |-> <<2>>],
      [fmt |-> "bcs", doc |-> <<2, 3, 118, 102>>],
      [fmt |-> "bcs", doc |-> <<2, 1, 255>>],
      [fmt |-> "bcs", doc |-> <<2, 3, 118, 102, 110, 0>>],
      [fmt |-> "bcs", doc |-> <<128, 0>>],
      [fmt |-> "bcs", doc |-> <<131>>] }

\* a word with the letters at the positions in upper put in upper case
CaseMix(word, upper) ==
    [i \in 1..Len(word) |-> IF i \in upper THEN word[i] - 32 ELSE word[i]]

CaseMixes(word) == {CaseMix(word, upper) : upper \in SUBSET (1..Len(word))}

\* the strings given to from_str: every mix of upper and lower case of the
\* three names and of "vlaidator" and "private", and some other strings
ParseInputs ==
    CaseMixes(Str_validator) \cup CaseMixes(Str_public) \cup CaseMixes(VFN_NETWORK)
        \cup CaseMixes(<<118, 108, 97, 105, 100, 97, 116, 111, 114>>)
        \cup CaseMixes(<<112, 114, 105, 118, 97, 116, 101>>)
        \cup { <<>>,
               \* "vf", "vfnn", " vfn", "vfn "
               <<118, 102>>, <<118, 102, 110, 110>>,
               <<32, 118, 102, 110>>, <<118, 102, 110, 32>>,
               \* "new_public"
               <<110, 101, 119, 95, 112, 117, 98, 108, 105, 99>>,
               \* "PUBL" U+0130 "C", "val" U+0130 "dator"
               <<80, 85, 66, 76, 304, 67>>,
               <<118, 97, 108, 304, 100, 97, 116, 111, 114>>,
               \* "publi" U+212A: the Kelvin sign lowercases to "k"
               <<112, 117, 98, 108, 105, 8490>>,
               \* "validat" O-acute "r"
               <<118, 97, 108, 105, 100, 97, 116, 211, 114>> }

\* the UpstreamConfig.networks lists: every list of at most MaxNetworks
\* networks, duplicates included
NetworkLists == UNION {[1..n -> NetworkId] : n \in 0..MaxNetworks}

PeerNetworkIdArgs == [network_id : NetworkId, peer_id : PeerId]

(***************************************************************************)
(* The state machine.                                                      *)
(***************************************************************************)
NoWire == [fmt |-> "none", doc |-> <<>>]
NotDecoded == [done |-> FALSE, res |-> IdErr("not decoded")]
NotOldDecoded == [done |-> FALSE, res |-> EnumErr("not decoded")]

Requests ==
    [op : {"serialize"}, id : NetworkId, fmt : Format]
        \cup [op : {"serialize_old"}, old : OldValues, fmt : Format]
        \cup [op : {"serialize_convert"}, v : ConvertValues, fmt : Format]
        \cup [op : {"receive"}, doc : ForeignDocs]
        \cup [op : {"upstream_roles", "downstream_roles"}, id : NetworkId, role : RoleType]
        \cup [op : {"from_str"}, s : ParseInputs]
        \cup [op : {"get_upstream_preference"}, networks : NetworkLists, network : NetworkId]
        \cup [op : {"upstream_count"}, networks : NetworkLists]
        \cup [op : {"preference_and_count"}, networks : NetworkLists, network : NetworkId]
        \cup [op : {"cmp"}, a : NetworkId, b : NetworkId]
        \cup [op : {"peer_network_id"}, a : PeerNetworkIdArgs, b : PeerNetworkIdArgs]
        \cup [op : {"context"}, role : RoleType, network_id : NetworkId, peer_id : PeerId]

Init ==
    /\ req \in Requests
    /\ pc = "start"
    /\ wire = NoWire
    /\ decoded = NotDecoded
    /\ old_decoded = NotOldDecoded
    /\ ret = <<>>

\* a node of this version writes a NetworkId (serde_yaml::to_string,
\* bcs::to_bytes)
Serialize ==
    /\ pc = "start"
    /\ req.op = "serialize"
    /\ wire' = [fmt |-> req.fmt, doc |-> NetworkId_serialize(req.id, req.fmt)]
    /\ pc' = "sent"
    /\ UNCHANGED <<req, decoded, old_decoded, ret>>

\* a node of the old version writes an OldNetworkId
SerializeOld ==
    /\ pc = "start"
    /\ req.op = "serialize_old"
    /\ wire' = [fmt |-> req.fmt, doc |-> OldNetworkId_serialize(req.old, req.fmt)]
    /\ pc' = "sent"
    /\ UNCHANGED <<req, decoded, old_decoded, ret>>

\* a node past the second step of the migration writes the shape that the
\* current decoder reads
SerializeConvert ==
    /\ pc = "start"
    /\ req.op = "serialize_convert"
    /\ wire' = [fmt |-> req.fmt, doc |-> SerializeEnum(req.fmt, DeConvertNetworkId, req.v)]
    /\ pc' = "sent"
    /\ UNCHANGED <<req, decoded, old_decoded, ret>>

\* a document of neither shape arrives
Receive ==
    /\ pc = "start"
    /\ req.op = "receive"
    /\ wire' = req.doc
    /\ pc' = "sent"
    /\ UNCHANGED <<req, decoded, old_decoded, ret>>

\* a node of this version reads the document (serde_yaml::from_str,
\* bcs::from_bytes as NetworkId)
Deserialize ==
    /\ pc = "sent"
    /\ ~decoded.done
    /\ decoded' = [done |-> TRUE, res |-> NetworkId_deserialize(wire.fmt, wire.doc)]
    /\ UNCHANGED <<req, pc, wire, old_decoded, ret>>

\* a node of the old version reads the document (as OldNetworkId)
DeserializeOld ==
    /\ pc = "sent"
    /\ ~old_decoded.done
    /\ old_decoded' = [done |-> TRUE, res |-> OldNetworkId_deserialize(wire.fmt, wire.doc)]
    /\ UNCHANGED <<req, pc, wire, decoded, ret>>

Return(value) ==
    /\ pc = "start"
    /\ ret' = value
    /\ pc' = "done"
    /\ UNCHANGED <<req, wire, decoded, old_decoded>>

UpstreamRoles ==
    /\ req.op = "upstream_roles"
    /\ Return(upstream_roles(req.id, req.role))

DownstreamRoles ==
    /\ req.op = "downstream_roles"
    /\ Return(downstream_roles(req.id, req.role))

FromStr ==
    /\ req.op = "from_str"
    /\ Return(from_str(req.s))

GetUpstreamPreference ==
    /\ req.op = "get_upstream_preference"
    /\ Return(get_upstream_preference(req.networks, req.network))

UpstreamCount ==
    /\ req.op = "upstream_count"
    /\ Return(upstream_count(req.networks))

\* both queries of one UpstreamConfig: the rank of a network and the number
\* of upstream networks
PreferenceAndCount ==
    /\ req.op = "preference_and_count"
    /\ Return([preference |-> get_upstream_preference(req.networks, req.network),
               count |-> upstream_count(req.networks)])

\* a < b, a == b, a.cmp(&b) of two NetworkIds
Compare ==
    /\ req.op = "cmp"
    /\ Return([cmp |-> NetworkId_cmp(req.a, req.b), eq |-> NetworkId_eq(req.a, req.b)])

\* two PeerNetworkIds are made, read back and compared
PeerNetworkIdOps ==
    /\ req.op = "peer_network_id"
    /\ LET a == PeerNetworkId_new(req.a.network_id, req.a.peer_id)
           b == PeerNetworkId_new(req.b.network_id, req.b.peer_id)
       IN Return([network_id |-> PeerNetworkId_network_id(a),
                  peer_id |-> PeerNetworkId_peer_id(a),
                  eq |-> PeerNetworkId_eq(a, b),
                  cmp |-> PeerNetworkId_cmp(a, b)])

\* serde_yaml::to_string(&context)
ContextSerialize ==
    /\ req.op = "context"
    /\ Return(NetworkContext_serialize(req.role, req.network_id, req.peer_id))

Next ==
    \/ Serialize
    \/ SerializeOld
    \/ SerializeConvert
    \/ Receive
    \/ Deserialize
    \/ DeserializeOld
    \/ UpstreamRoles
    \/ DownstreamRoles
    \/ FromStr
    \/ GetUpstreamPreference
    \/ UpstreamCount
    \/ PreferenceAndCount
    \/ Compare
    \/ PeerNetworkIdOps
    \/ ContextSerialize

Spec == Init /\ [][Next]_vars

(***************************************************************************)
(* The claims.                                                             *)
(***************************************************************************)
\* the legacy value that stands for a NetworkId
LegacyValue(id) ==
    IF id = "Validator" THEN Unit("Validator")
    ELSE IF id = "Public" THEN Unit("Public")
    ELSE Newtype("Private", <<118, 102, 110>>)

\* the encodings, in a format, of the tags Vfn and NewPublic of the current
\* shape
MigrationDocs(fmt) ==
    { SerializeEnum(fmt, DeConvertNetworkId, Unit("Vfn")),
      SerializeEnum(fmt, DeConvertNetworkId, Unit("NewPublic")) }

\* C1: what a node of this version writes for a NetworkId is, in either
\* format, the document a legacy node writes for Validator, Public or
\* Private("vfn") respectively, and never the document of the tags Vfn or
\* NewPublic; a legacy decoder reads it without error as that legacy value.
C1_EncodesLegacyShape ==
    (req.op = "serialize" /\ pc = "sent") =>
        /\ wire.fmt = req.fmt
        /\ wire.doc = OldNetworkId_serialize(LegacyValue(req.id), req.fmt)
        /\ wire.doc \notin MigrationDocs(req.fmt)
        /\ old_decoded.done =>
              /\ old_decoded.res.ok
              /\ old_decoded.res.val = LegacyValue(req.id)

\* a legacy decoder has read the document written for Vfn, in the binary
\* format, as Private("vfn")
C1_Witness ==
    /\ req.op = "serialize"
    /\ req.id = "Vfn"
    /\ req.fmt = "bcs"
    /\ old_decoded.done
    /\ old_decoded.res.ok
    /\ old_decoded.res.val.variant = "Private"
    /\ old_decoded.res.val.payload = VFN_NETWORK

\* the NetworkId that decoding a value of the accepted shape must give
ExpectedDecoded(v) ==
    IF v.variant \in {"Validator"} THEN "Validator"
    ELSE IF v.variant \in {"Public", "NewPublic"} THEN "Public"
    ELSE "Vfn"

\* C2: the current decoder reads every document of the five tag forms, from
\* a legacy node or from a migrated one, without error: Validator as
\* Validator, Public and NewPublic as Public, Vfn as Vfn, and Private(s) as
\* Vfn whatever the string s.
C2_DecodesFiveForms ==
    (req.op \in {"serialize_old", "serialize_convert"} /\ decoded.done) =>
        LET v == IF req.op = "serialize_old" THEN req.old ELSE req.v
        IN /\ decoded.res.ok
           /\ decoded.res.val \in NetworkId
           /\ decoded.res.val = ExpectedDecoded(v)

\* the current decoder has read a legacy Private("anything-else") as Vfn
C2_Witness ==
    /\ req.op = "serialize_old"
    /\ req.old.variant = "Private"
    /\ req.old.payload = <<97, 110, 121, 116, 104, 105, 110, 103, 45, 101, 108, 115, 101>>
    /\ decoded.done
    /\ decoded.res.ok
    /\ decoded.res.val = "Vfn"

\* C3: what a node of this version writes for a NetworkId it reads back, in
\* either format, as the same NetworkId.
C3_RoundTrip ==
    (req.op = "serialize" /\ decoded.done) =>
        /\ decoded.res.ok
        /\ decoded.res.val = req.id

\* Vfn has been written to the structured format and read back
C3_Witness ==
    /\ req.op = "serialize"
    /\ req.id = "Vfn"
    /\ req.fmt = "yaml"
    /\ decoded.done
    /\ wire.doc.kind = "map"
    /\ decoded.res.val = "Vfn"

\* the resolution table: network, node role, upstream roles, downstream roles
ResolutionTable ==
    { <<"Validator", "Validator", <<"Validator">>, <<"Validator">> >>,
      <<"Validator", "FullNode", <<"Validator">>, <<"Validator">> >>,
      <<"Public", "Validator",
        <<"PreferredUpstream", "Upstream", "ValidatorFullNode">>,
        <<"ValidatorFullNode", "Downstream", "Known", "Unknown">> >>,
      <<"Public", "FullNode",
        <<"PreferredUpstream", "Upstream", "ValidatorFullNode">>,
        <<"ValidatorFullNode", "Downstream", "Known", "Unknown">> >>,
      <<"Vfn", "Validator", <<>>, <<"ValidatorFullNode">> >>,
      <<"Vfn", "FullNode", <<"Validator">>, <<>> >> }

TableRow(id, role) == CHOOSE row \in ResolutionTable : row[1] = id /\ row[2] = role

\* C4: for each of the six pairs of a network and a node role, upstream_roles
\* and downstream_roles return the ordered list of the pair's one row of the
\* resolution table.
C4_ResolutionTable ==
    /\ \A id \in NetworkId, role \in RoleType :
          Cardinality({row \in ResolutionTable : row[1] = id /\ row[2] = role}) = 1
    /\ (req.op = "upstream_roles" /\ pc = "done") =>
          ret = TableRow(req.id, req.role)[3]
    /\ (req.op = "downstream_roles" /\ pc = "done") =>
          ret = TableRow(req.id, req.role)[4]

\* upstream_roles has returned the empty list for a validator on the Vfn
\* network
C4_Witness ==
    /\ req.op = "upstream_roles"
    /\ req.id = "Vfn"
    /\ req.role = "Validator"
    /\ pc = "done"
    /\ ret = <<>>

\* C5: upstream_count is the larger of 1 and the length of networks: 1 for
\* the empty list, and never 0.
C5_UpstreamCountFloor ==
    (req.op = "upstream_count" /\ pc = "done") =>
        /\ ret >= 1
        /\ ret >= Len(req.networks)
        /\ ret \in {1, Len(req.networks)}
        /\ (req.networks = <<>> => ret = 1)

\* upstream_count has returned 1 for the empty list
C5_Witness ==
    /\ req.op = "upstream_count"
    /\ req.networks = <<>>
    /\ pc = "done"
    /\ ret = 1

\* the places (from 0) at which a network occurs in a list
Occurrences(networks, network) ==
    {i \in 0..(Len(networks) - 1) : networks[i + 1] = network}

\* C6: get_upstream_preference is Some(0) for the validator network whatever
\* the list; for another network it is Some(i), i the place (from 0) of the
\* network's first occurrence in the list, and None when the list does not
\* hold the network.
C6_UpstreamPreference ==
    (req.op = "get_upstream_preference" /\ pc = "done") =>
        LET occ == Occurrences(req.networks, req.network)
        IN IF req.network = "Validator" THEN ret.some /\ ret.val = 0
           ELSE IF occ = {} THEN ~ret.some
           ELSE /\ ret.some
                /\ ret.val \in occ
                /\ \A i \in occ : ret.val <= i

\* the validator network has got rank 0 from a list that holds it at
\* index 1
C6_Witness ==
    /\ req.op = "get_upstream_preference"
    /\ req.network = "Validator"
    /\ req.networks = <<"Public", "Validator">>
    /\ pc = "done"
    /\ ret.some
    /\ ret.val = 0

\* s is word (in lower case) up to the case of its ASCII letters
SameLetters(s, word) ==
    /\ Len(s) = Len(word)
    /\ \A i \in 1..Len(word) : s[i] \in {word[i], word[i] - 32}

\* C7: from_str returns Validator, Public and Vfn for the strings that are
\* "validator", "public" and "vfn" up to the case of their letters, and the
\* error "Invalid network name", and no NetworkId, for every other string.
C7_FromStr ==
    (req.op = "from_str" /\ pc = "done") =>
        IF SameLetters(req.s, <<118, 97, 108, 105, 100, 97, 116, 111, 114>>)
        THEN ret.ok /\ ret.val = "Validator"
        ELSE IF SameLetters(req.s, <<112, 117, 98, 108, 105, 99>>)
        THEN ret.ok /\ ret.val = "Public"
        ELSE IF SameLetters(req.s, <<118, 102, 110>>)
        THEN ret.ok /\ ret.val = "Vfn"
        ELSE /\ ~ret.ok
             /\ ret.val \notin NetworkId
             /\ ret.err = "Invalid network name"

\* from_str has returned Vfn for "VFN"
C7_Witness ==
    /\ req.op = "from_str"
    /\ req.s = <<86, 70, 78>>
    /\ pc = "done"
    /\ ret.ok
    /\ ret.val = "Vfn"

\* the place of a network in the order Validator, Vfn, Public
Rank(id) == IF id = "Validator" THEN 0 ELSE IF id = "Vfn" THEN 1 ELSE 2

\* C8: NetworkId has three variants, and its comparison is the strict total
\* order Validator < Vfn < Public: two networks compare as their places in
\* that order do, and are equal only when they are the same.
C8_NetworkIdOrder ==
    /\ Cardinality(NetworkId) = 3
    /\ (req.op = "cmp" /\ pc = "done") =>
          /\ ret.cmp = IntCmp(Rank(req.a), Rank(req.b))
          /\ ret.eq = (req.a = req.b)
          /\ (ret.cmp = "Equal") = ret.eq

\* Vfn has compared less than Public
C8_Witness ==
    /\ req.op = "cmp"
    /\ req.a = "Vfn"
    /\ req.b = "Public"
    /\ pc = "done"
    /\ ret.cmp = "Less"

\* the plain tag of a network: "Validator", "Public", "vfn"
PlainTag(id) ==
    IF id = "Validator" THEN <<86, 97, 108, 105, 100, 97, 116, 111, 114>>
    ELSE IF id = "Public" THEN <<80, 117, 98, 108, 105, 99>>
    ELSE <<118, 102, 110>>

\* C9: a NetworkContext is written to a structured document as the fields
\* role, network_id, peer_id in that order, network_id being the plain
\* string tag of the network and not what a NetworkId on its own is written
\* as.
C9_ContextFields ==
    (req.op = "context" /\ pc = "done") =>
        /\ ret.kind = "map"
        /\ [i \in 1..Len(ret.entries) |-> ret.entries[i].key]
              = << <<114, 111, 108, 101>>,
                   <<110, 101, 116, 119, 111, 114, 107, 95, 105, 100>>,
                   <<112, 101, 101, 114, 95, 105, 100>> >>
        /\ ret.entries[2].val.kind = "str"
        /\ ret.entries[2].val.s = PlainTag(req.network_id)
        /\ ret.entries[2].val # NetworkId_serialize(req.network_id, "yaml")

\* the context of a validator on the Vfn network has been written with
\* network_id: vfn
C9_Witness ==
    /\ req.op = "context"
    /\ req.role = "Validator"
    /\ req.network_id = "Vfn"
    /\ pc = "done"
    /\ ret.entries[2].val.s = <<118, 102, 110>>

\* C10: two PeerNetworkIds are equal exactly when their networks and their
\* peers are; they are ordered by network first (Validator < Vfn < Public),
\* then by peer; and the accessors return what new() was given.
C10_PeerNetworkId ==
    (req.op = "peer_network_id" /\ pc = "done") =>
        /\ ret.eq = (req.a.network_id = req.b.network_id /\ req.a.peer_id = req.b.peer_id)
        /\ ret.cmp = IF Rank(req.a.network_id) # Rank(req.b.network_id)
                     THEN IntCmp(Rank(req.a.network_id), Rank(req.b.network_id))
                     ELSE IntCmp(req.a.peer_id, req.b.peer_id)
        /\ (ret.cmp = "Equal") = ret.eq
        /\ ret.network_id = req.a.network_id
        /\ ret.peer_id = req.a.peer_id

\* a peer on the Vfn network has compared less than a peer with a smaller
\* identifier on the Public network, and one peer on two networks has given
\* two keys
C10_Witness ==
    /\ req.op = "peer_network_id"
    /\ req.a.network_id = "Vfn"
    /\ req.b.network_id = "Public"
    /\ req.a.peer_id > req.b.peer_id
    /\ pc = "done"
    /\ ret.cmp = "Less"
    /\ ~ret.eq

\* C11: a rank that get_upstream_preference returns for a network, the rank
\* 0 of the validator network included, is less than the upstream_count of
\* the same UpstreamConfig, whatever its list (empty, with duplicates).
C11_RankBelowCount ==
    (req.op = "preference_and_count" /\ pc = "done") =>
        (ret.preference.some =>
            /\ ret.preference.val >= 0
            /\ ret.preference.val < ret.count)

\* the validator network has got rank 0 from the empty list, whose count
\* is 1
C11_Witness ==
    /\ req.op = "preference_and_count"
    /\ req.networks = <<>>
    /\ req.network = "Validator"
    /\ pc = "done"
    /\ ret.preference.some
    /\ ret.preference.val = 0
    /\ ret.count = 1

====
